---- MODULE Spec2Model ----
(***************************************************************************)
(* aumai-alignment: the in-memory DatasetRegistry (the Catalog) and the    *)
(* EvaluationRunner (the Evaluator) of src/aumai_alignment/core.py, and    *)
(* the HTTP handlers of src/aumai_alignment/api.py that serve them.        *)
(*                                                                         *)
(* Conventions of the model                                                *)
(*  - a Python str that the code inspects (name, description, tags,        *)
(*    category, query) is a sequence of one-character strings; identifiers *)
(*    and model names, which the code only compares and stores, are TLA+   *)
(*    strings;                                                             *)
(*  - a Python dict is a sequence of [key, value] entries in insertion     *)
(*    order (the order dict.values() iterates in);                         *)
(*  - a real number is a fixed-point integer with Decimals decimal places  *)
(*    (1.0 is One); a mean is kept exact as a fraction [num, den]; an int  *)
(*    too large for a float carries the field beyond_float;                *)
(*  - an optional argument is a sequence of length 0 (None) or 1;          *)
(*  - the fields size, format, license and download_url of a dataset and   *)
(*    evaluated_at of a result are read by no operation of core.py and     *)
(*    are left out of the records.                                         *)
(***************************************************************************)
EXTENDS Integers, Sequences, FiniteSets, TLC

VARIABLES
    _datasets,      \* DatasetRegistry._datasets : dict[str, AlignmentDataset]
    _listings,      \* DatasetRegistry._listings : dict[str, MarketplaceListing]
    _scoring_fn,    \* EvaluationRunner._scoring_fn
    _results,       \* EvaluationRunner._results : dict[str, list[EvaluationResult]]
    ret,            \* the last call: its operation, arguments, return value, exception
    registered,     \* history: per identifier, the payload of the last register call, if any
    evaluated,      \* history: per identifier, the model names of the evaluate calls that returned
    incremented,    \* history: per identifier, the increment_downloads calls since its first register call
    requests,       \* per server thread, the POST /api/datasets request it is handling
    first_registered, \* history: the identifiers, in the order of their first register call
    held            \* optional: the get_results call whose list a caller keeps, and that list

vars == <<_datasets, _listings, _scoring_fn, _results, ret, registered, evaluated,
          incremented, requests, first_registered, held>>

\* what ret records of a call; raised is "" when the call returned
Call(op, args, raised, value) == [op |-> op, args |-> args, raised |-> raised, value |-> value]

\* Python's None, and an optional argument that is not given
None == <<>>

-----------------------------------------------------------------------------
(* Bounds of the model *)

\* IncrementDownloads is not taken once the listings hold this many downloads in all.
MaxDownloads == 2

\* Evaluate is not taken once the histories hold this many results in all.
MaxEvals == 2

\* The server threads that handle requests at the same time.
MaxThreads == 2

-----------------------------------------------------------------------------
(* Numbers *)

\* round(aggregate_score, 4)
Decimals == 4

One == 10 ^ Decimals

Half == One \div 2

Max2(a, b) == IF a >= b THEN a ELSE b

Min2(a, b) == IF a <= b THEN a ELSE b

-----------------------------------------------------------------------------
(* Python dict: entries in insertion order *)

dict_contains(d, k) == \E i \in DOMAIN d : d[i].key = k

dict_index(d, k) == CHOOSE i \in DOMAIN d : d[i].key = k

\* d[k]
dict_getitem(d, k) == d[dict_index(d, k)].value

\* a mutant of dict_setitem: a key that is assigned again moves to the end
dict_setitem_moves_to_end(d, k, v) ==
    Append(SelectSeq(d, LAMBDA entry : entry.key # k), [key |-> k, value |-> v])

\* d[k] = v : a new key goes last, an existing key keeps its place
dict_setitem(d, k, v) ==
    IF dict_contains(d, k)
    THEN [i \in DOMAIN d |-> IF d[i].key = k THEN [key |-> k, value |-> v] ELSE d[i]]
    ELSE Append(d, [key |-> k, value |-> v])

\* list(d.values())
dict_values(d) == [i \in DOMAIN d |-> d[i].value]

dict_keys(d) == {d[i].key : i \in DOMAIN d}

-----------------------------------------------------------------------------
(* Models *)

AlignmentDataset(dataset_id, name, description, category, tags, quality_score) ==
    [dataset_id |-> dataset_id, name |-> name, description |-> description,
     category |-> category, tags |-> tags, quality_score |-> quality_score]

\* MarketplaceListing(dataset=..., downloads=0, rating=0.0, reviews=0)
MarketplaceListing(dataset, downloads, rating, reviews) ==
    [dataset |-> dataset, downloads |-> downloads, rating |-> rating, reviews |-> reviews]

\* a mutant of EvaluationResultValid: score is declared without bounds
EvaluationResultUnbounded(score) == TRUE

\* score: float = Field(ge=0.0, le=1.0): the constructor raises ValidationError otherwise
EvaluationResultValid(score) == 0 <= score /\ score <= One

EvaluationResult(dataset_id, model_name, score, metrics) ==
    [dataset_id |-> dataset_id, model_name |-> model_name, score |-> score,
     metrics |-> metrics]

-----------------------------------------------------------------------------
(* Python str operations, on sequences of characters *)

\* str.lower(), on the characters the model uses
lower_char(c) ==
    CASE c = "A" -> "a"
      [] c = "B" -> "b"
      [] c = "X" -> "x"
      [] OTHER -> c

lower(s) == [i \in DOMAIN s |-> lower_char(s[i])]

\* what str.strip() removes
Whitespace == {" ", "\t"}

RECURSIVE lstrip(_)
lstrip(s) == IF s # <<>> /\ s[1] \in Whitespace THEN lstrip(Tail(s)) ELSE s

RECURSIVE rstrip(_)
rstrip(s) ==
    IF s # <<>> /\ s[Len(s)] \in Whitespace THEN rstrip(SubSeq(s, 1, Len(s) - 1)) ELSE s

strip(s) == rstrip(lstrip(s))

\* sep.join(parts)
RECURSIVE join(_, _)
join(sep, parts) ==
    IF parts = <<>> THEN <<>>
    ELSE IF Len(parts) = 1 THEN parts[1]
    ELSE parts[1] \o sep \o join(sep, Tail(parts))

\* the characters re.escape puts a backslash before, among those the model uses
SpecialChars == {".", "*", " ", "\t", "\\"}

\* a mutant of re_escape: the pattern is used as it is
re_escape_nothing(pattern) == pattern

\* re.escape(pattern)
RECURSIVE re_escape(_)
re_escape(pattern) ==
    IF pattern = <<>> THEN <<>>
    ELSE (IF pattern[1] \in SpecialChars THEN <<"\\", pattern[1]>> ELSE <<pattern[1]>>)
         \o re_escape(Tail(pattern))

\* The pattern as atoms: "\c" is the literal c, "." is any character, any other
\* character is itself, and an atom followed by "*" repeats zero or more times.
\* (A pattern that starts with "*" is an re.error in Python; re_escape never
\* produces one, and re_parse reads it as a literal.)
RECURSIVE re_parse(_)
re_parse(pattern) ==
    IF pattern = <<>> THEN <<>>
    ELSE LET esc   == pattern[1] = "\\" /\ Len(pattern) >= 2
             width == IF esc THEN 2 ELSE 1
             atom  == IF esc THEN [kind |-> "lit", ch |-> pattern[2]]
                      ELSE IF pattern[1] = "." THEN [kind |-> "any", ch |-> "."]
                      ELSE [kind |-> "lit", ch |-> pattern[1]]
             star  == Len(pattern) > width /\ pattern[width + 1] = "*"
             used  == IF star THEN width + 1 ELSE width
         IN  <<[kind |-> atom.kind, ch |-> atom.ch, star |-> star]>>
             \o re_parse(SubSeq(pattern, used + 1, Len(pattern)))

atom_accepts(atom, c) == atom.kind = "any" \/ atom.ch = c

\* the atoms match a prefix of string
RECURSIVE re_match(_, _)
re_match(atoms, string) ==
    IF atoms = <<>> THEN TRUE
    ELSE LET a == atoms[1]
         IN  IF a.star
             THEN \/ re_match(Tail(atoms), string)
                  \/ /\ string # <<>>
                     /\ atom_accepts(a, string[1])
                     /\ re_match(atoms, Tail(string))
             ELSE /\ string # <<>>
                  /\ atom_accepts(a, string[1])
                  /\ re_match(Tail(atoms), Tail(string))

\* re.search(pattern, string) is not None
re_search(pattern, string) ==
    \E i \in 1..(Len(string) + 1) :
        re_match(re_parse(pattern), SubSeq(string, i, Len(string)))

-----------------------------------------------------------------------------
(* DatasetRegistry *)

\* a mutant of register: the listing is built afresh on every call
register_fresh_listing(dataset) ==
    /\ _datasets' = dict_setitem(_datasets, dataset.dataset_id, dataset)
    /\ _listings' = dict_setitem(_listings, dataset.dataset_id,
                                 MarketplaceListing(dataset, 0, 0, 0))

\* a mutant of register: the record of a known identifier is not replaced
register_keeps_first(dataset) ==
    /\ _datasets' = IF dict_contains(_datasets, dataset.dataset_id) THEN _datasets
                    ELSE dict_setitem(_datasets, dataset.dataset_id, dataset)
    /\ _listings' =
         IF ~dict_contains(_listings, dataset.dataset_id)
         THEN dict_setitem(_listings, dataset.dataset_id,
                           MarketplaceListing(dataset, 0, 0, 0))
         ELSE _listings

\* a mutant of register: a listing that exists keeps the dataset it was created with
register_stale_listing(dataset) ==
    /\ _datasets' = dict_setitem(_datasets, dataset.dataset_id, dataset)
    /\ _listings' =
        IF ~dict_contains(_listings, dataset.dataset_id)
        THEN dict_setitem(_listings, dataset.dataset_id, MarketplaceListing(dataset, 0, 0, 0))
        ELSE _listings

\* a mutant of register: registering a known identifier again sets its downloads to 0
register_resets_downloads(dataset) ==
    /\ _datasets' = dict_setitem(_datasets, dataset.dataset_id, dataset)
    /\ _listings' =
        IF ~dict_contains(_listings, dataset.dataset_id)
        THEN dict_setitem(_listings, dataset.dataset_id, MarketplaceListing(dataset, 0, 0, 0))
        ELSE LET existing == dict_getitem(_listings, dataset.dataset_id)
             IN  dict_setitem(_listings, dataset.dataset_id,
                              MarketplaceListing(dataset, 0, existing.rating,
                                                 existing.reviews))

\* register(self, dataset)
register(dataset) ==
    /\ _datasets' = dict_setitem(_datasets, dataset.dataset_id, dataset)
    /\ _listings' =
         IF ~dict_contains(_listings, dataset.dataset_id)
         THEN dict_setitem(_listings, dataset.dataset_id,
                           MarketplaceListing(dataset, 0, 0, 0))
         ELSE LET existing == dict_getitem(_listings, dataset.dataset_id)
              IN  dict_setitem(_listings, dataset.dataset_id,
                               MarketplaceListing(dataset, existing.downloads,
                                                  existing.rating, existing.reviews))

\* list.sort(key=quality_score, reverse=True): stable, so equal keys keep their order
sort_insert(sorted, listing) ==
    LET pos == Cardinality({i \in DOMAIN sorted :
                   sorted[i].dataset.quality_score >= listing.dataset.quality_score})
    IN  SubSeq(sorted, 1, pos) \o <<listing>> \o SubSeq(sorted, pos + 1, Len(sorted))

RECURSIVE sort_from(_, _)
sort_from(sorted, rest) ==
    IF rest = <<>> THEN sorted
    ELSE sort_from(sort_insert(sorted, rest[1]), Tail(rest))

sort_by_quality_desc(results) == sort_from(<<>>, results)

\* the text the query is looked up in
searchable(dataset) == lower(join(<<" ">>, <<dataset.name, dataset.description>> \o dataset.tags))

\* a mutant of search_keeps: a listing of exactly the minimum quality is skipped
search_keeps_above(listing, query_lower, category, min_quality) ==
    LET dataset == listing.dataset
    IN  /\ ~(dataset.quality_score <= min_quality)
        /\ ~(category # <<>> /\ lower(dataset.category) # lower(category[1]))
        /\ ~(query_lower # <<>>
             /\ ~re_search(re_escape(query_lower), searchable(dataset)))

\* a mutant of search_keeps: the category is compared as written
search_keeps_same_case(listing, query_lower, category, min_quality) ==
    LET dataset == listing.dataset
    IN  /\ ~(dataset.quality_score < min_quality)
        /\ ~(category # <<>> /\ dataset.category # category[1])
        /\ ~(query_lower # <<>>
             /\ ~re_search(re_escape(query_lower), searchable(dataset)))

\* the body of the loop of search: the listing is appended to results
search_keeps(listing, query_lower, category, min_quality) ==
    LET dataset == listing.dataset
    IN  /\ ~(dataset.quality_score < min_quality)
        /\ ~(category # <<>> /\ lower(dataset.category) # lower(category[1]))
        /\ ~(query_lower # <<>>
             /\ ~re_search(re_escape(query_lower), searchable(dataset)))

\* search(self, query, category=None, min_quality=0.0)
search(query, category, min_quality) ==
    LET query_lower == strip(lower(query))
        results == SelectSeq(dict_values(_listings),
                             LAMBDA listing :
                                 search_keeps(listing, query_lower, category, min_quality))
    IN  sort_by_quality_desc(results)

\* a mutant of get: a missing identifier yields None, as dict.get does
get_or_none(dataset_id) ==
    IF dict_contains(_datasets, dataset_id)
    THEN [raised |-> "", value |-> dict_getitem(_datasets, dataset_id)]
    ELSE [raised |-> "", value |-> <<>>]

\* get(self, dataset_id): the dataset, or DatasetNotFoundError(dataset_id)
get(dataset_id) ==
    IF dict_contains(_datasets, dataset_id)
    THEN [raised |-> "", value |-> dict_getitem(_datasets, dataset_id)]
    ELSE [raised |-> "DatasetNotFoundError", value |-> dataset_id]

\* a mutant of increment_downloads: the rating is not carried over
increment_downloads_drops_rating(dataset_id) ==
    _listings' =
        IF dict_contains(_listings, dataset_id)
        THEN LET listing == dict_getitem(_listings, dataset_id)
             IN  dict_setitem(_listings, dataset_id,
                              MarketplaceListing(listing.dataset, listing.downloads + 1,
                                                 listing.rating + 1, listing.reviews))
        ELSE _listings

\* a mutant of increment_downloads: a missing identifier gets a listing
increment_downloads_creates(dataset_id) ==
    _listings' =
        LET listing == IF dict_contains(_listings, dataset_id)
                       THEN dict_getitem(_listings, dataset_id)
                       ELSE MarketplaceListing(
                                AlignmentDataset(dataset_id, <<>>, <<>>, <<>>, <<>>, 0),
                                0, 0, 0)
        IN  dict_setitem(_listings, dataset_id,
                         MarketplaceListing(listing.dataset, listing.downloads + 1,
                                            listing.rating, listing.reviews))

\* a mutant of increment_downloads: a download also counts as a review
increment_downloads_counts_review(dataset_id) ==
    _listings' =
        IF dict_contains(_listings, dataset_id)
        THEN LET listing == dict_getitem(_listings, dataset_id)
             IN  dict_setitem(_listings, dataset_id,
                              MarketplaceListing(listing.dataset, listing.downloads + 1,
                                                 listing.rating, listing.reviews + 1))
        ELSE _listings

\* increment_downloads(self, dataset_id)
increment_downloads(dataset_id) ==
    _listings' =
        IF dict_contains(_listings, dataset_id)
        THEN LET listing == dict_getitem(_listings, dataset_id)
             IN  dict_setitem(_listings, dataset_id,
                              MarketplaceListing(listing.dataset, listing.downloads + 1,
                                                 listing.rating, listing.reviews))
        ELSE _listings

-----------------------------------------------------------------------------
(* EvaluationRunner *)

\* float(raw) for an int, a float or a bool (True is 1.0, False is 0.0)
to_float(raw) ==
    IF raw.type = "bool" THEN (IF raw.val THEN One ELSE 0) ELSE raw.val

\* what float(raw) raises: an int beyond the range of a float (above about 1.8e308,
\* marked by the field beyond_float, its val being of no use) cannot be converted
to_float_raises(raw) ==
    IF raw.type = "int" /\ "beyond_float" \in DOMAIN raw THEN "OverflowError" ELSE ""

\* what _default_scorer(output) raises
_default_scorer_raises(output) ==
    IF output.score # <<>> /\ output.score[1].type \in {"int", "float", "bool"}
    THEN to_float_raises(output.score[1])
    ELSE ""

\* what _default_scorer(output) returns when it raises nothing; output.score is the
\* optional value of the key "score"
_default_scorer(output) ==
    LET raw == IF output.score = <<>> THEN [type |-> "float", val |-> Half]
               ELSE output.score[1]
    IN  IF raw.type \in {"int", "float", "bool"}
        THEN Max2(0, Min2(One, to_float(raw)))
        ELSE Half

\* self._scoring_fn(output): the default scorer, or the custom callable given to
\* the constructor (here one that returns the same value for every output)
apply_scoring_fn(scoring_fn, output) ==
    IF scoring_fn.kind = "default" THEN _default_scorer(output) ELSE scoring_fn.value

\* what self._scoring_fn(output) raises
apply_scoring_fn_raises(scoring_fn, output) ==
    IF scoring_fn.kind = "default" THEN _default_scorer_raises(output) ELSE ""

RECURSIVE sum(_)
sum(scores) == IF scores = <<>> THEN 0 ELSE scores[1] + sum(Tail(scores))

RECURSIVE min(_)
min(scores) ==
    IF Len(scores) = 1 THEN scores[1] ELSE Min2(scores[1], min(Tail(scores)))

RECURSIVE max(_)
max(scores) ==
    IF Len(scores) = 1 THEN scores[1] ELSE Max2(scores[1], max(Tail(scores)))

\* round(num / den, 4) in fixed point: to the nearest, a tie to the even neighbour
round4(num, den) ==
    LET floor == num \div den
        rem   == num % den
    IN  IF 2 * rem < den THEN floor
        ELSE IF 2 * rem > den THEN floor + 1
        ELSE IF floor % 2 = 0 THEN floor ELSE floor + 1

\* get_results(self, dataset_id)
get_results(dataset_id) ==
    IF dict_contains(_results, dataset_id) THEN dict_getitem(_results, dataset_id) ELSE <<>>

\* a mutant of append_result: a result equal to a stored one is not stored again
append_result_dedup(results, dataset_id, result) ==
    LET history == IF dict_contains(results, dataset_id)
                   THEN dict_getitem(results, dataset_id) ELSE <<>>
    IN  IF \E i \in DOMAIN history : history[i] = result
        THEN results
        ELSE dict_setitem(results, dataset_id, Append(history, result))

\* a mutant of get_results_list: the caller is given a copy of the history
get_results_copy(dataset_id) ==
    [kind |-> "new", items |-> get_results(dataset_id)]

\* the list object get_results(dataset_id) returns: the list stored under the key
\* (evaluate appends to that same object and never assigns another to the key), or
\* the new empty list that is the default of self._results.get
get_results_list(dataset_id) ==
    IF dict_contains(_results, dataset_id)
    THEN [kind |-> "stored", key |-> dataset_id]
    ELSE [kind |-> "new", items |-> <<>>]

\* what a list object holds now
items(list) == IF list.kind = "stored" THEN get_results(list.key) ELSE list.items

\* a mutant of append_result: the newest result is put first
append_result_first(results, dataset_id, result) ==
    LET history == IF dict_contains(results, dataset_id)
                   THEN dict_getitem(results, dataset_id) ELSE <<>>
    IN  dict_setitem(results, dataset_id, <<result>> \o history)

\* a mutant of append_result: the result of an empty batch is not stored
append_result_skips_empty(results, dataset_id, result) ==
    LET history == IF dict_contains(results, dataset_id)
                   THEN dict_getitem(results, dataset_id) ELSE <<>>
    IN  IF result.metrics.sample_count = 0
        THEN results
        ELSE dict_setitem(results, dataset_id, Append(history, result))

\* self._results.setdefault(dataset_id, []).append(result)
append_result(results, dataset_id, result) ==
    LET history == IF dict_contains(results, dataset_id)
                   THEN dict_getitem(results, dataset_id) ELSE <<>>
    IN  dict_setitem(results, dataset_id, Append(history, result))

\* evaluate(self, dataset_id, model_outputs, model_name): what it raises, what it
\* returns, and self._results after it
evaluate(dataset_id, model_outputs, model_name) ==
    IF get(dataset_id).raised # ""
    THEN [raised |-> get(dataset_id).raised, value |-> dataset_id, results |-> _results]
    ELSE IF \E i \in DOMAIN model_outputs :
                apply_scoring_fn_raises(_scoring_fn, model_outputs[i]) # ""
    THEN [raised |-> "OverflowError", value |-> None, results |-> _results]
    ELSE LET scores == [i \in DOMAIN model_outputs |->
                           apply_scoring_fn(_scoring_fn, model_outputs[i])]
             aggregate_score == IF scores # <<>>
                                THEN [num |-> sum(scores), den |-> Len(scores)]
                                ELSE [num |-> 0, den |-> 1]
             metrics == [mean_score   |-> aggregate_score,
                         min_score    |-> IF scores # <<>> THEN min(scores) ELSE 0,
                         max_score    |-> IF scores # <<>> THEN max(scores) ELSE 0,
                         sample_count |-> Len(scores) * One]
             score  == round4(aggregate_score.num, aggregate_score.den)
             result == EvaluationResult(dataset_id, model_name, score, metrics)
         IN  IF ~EvaluationResultValid(score)
             THEN [raised |-> "ValidationError", value |-> score, results |-> _results]
             ELSE [raised |-> "", value |-> result,
                   results |-> append_result(_results, dataset_id, result)]

\* EvaluationRunner.__init__(registry, scoring_fn=None): scoring_fn or _default_scorer
init_scoring_fn(scoring_fn) ==
    IF scoring_fn = <<>> THEN [kind |-> "default", value |-> 0] ELSE scoring_fn[1]

-----------------------------------------------------------------------------
(* The HTTP layer, src/aumai_alignment/api.py: what a handler raises or returns; *)
(* the server answers HTTPException(status_code=404) with the status 404        *)

\* GET /api/datasets
list_datasets(query, category, min_quality) == search(query, category, min_quality)

\* GET /api/datasets/{dataset_id}
get_dataset(dataset_id) ==
    IF get(dataset_id).raised = "DatasetNotFoundError"
    THEN [raised |-> "HTTPException", value |-> 404]
    ELSE [raised |-> "", value |-> get(dataset_id).value]

\* a mutant of get_evaluations: the registry is not asked for the dataset
get_evaluations_unchecked(dataset_id) ==
    [raised |-> "", value |-> get_results(dataset_id)]

\* GET /api/evaluations/{dataset_id}
get_evaluations(dataset_id) ==
    IF get(dataset_id).raised = "DatasetNotFoundError"
    THEN [raised |-> "HTTPException", value |-> 404]
    ELSE [raised |-> "", value |-> get_results(dataset_id)]

-----------------------------------------------------------------------------
(* The inputs the calls are made with *)

AllIds == {"d1", "d2", "d3"}

Ids == {"d1", "d2"}

\* "Safety" datasets of two identifiers, each in two versions
D1a == AlignmentDataset("d1", <<"a">>, <<"b">>, <<"x">>, <<>>, Half)

D1b == AlignmentDataset("d1", <<"A", ".", "b">>, <<>>, <<"X">>, << <<"a", "*">> >>, One)

D2a == AlignmentDataset("d2", <<"a", "b">>, <<>>, <<"x", "y">>, <<>>, Half)

D2b == AlignmentDataset("d2", <<"b">>, <<"A">>, <<"x">>, << <<"a">>, <<"b">> >>, 0)

D3a == AlignmentDataset("d3", <<>>, <<>>, <<"X">>, << <<".">> >>, One)

D3b == AlignmentDataset("d3", <<"B">>, <<".", "*">>, <<"y">>, <<>>, Half)

Datasets == {D1a, D1b, D2a}

SearchDatasets == {D1a, D1b, D2a, D2b, D3a, D3b}

Queries == {<<>>, <<"a">>}

SearchQueries ==
    { <<>>, <<" ", "\t">>, <<"A">>, <<".">>, <<"a", "b">>, <<"a", " ", "b">>,
      <<" ", "B", " ">>, <<".", "*">>, <<"a", "*">> }

Categories == {<<>>}

SearchCategories == {<<>>, << <<"X">> >>, << <<"x", "y">> >>}

MinQualities == {0}

SearchMinQualities == {0, Half}

\* a model output with no "score" key, and one with "score": val
NoScore == [score |-> <<>>]

Score(type, val) == [score |-> <<[type |-> type, val |-> val]>>]

Batches == {<<>>, <<Score("float", 2 * One), Score("float", 0 - One)>>}

ModelNames == {"unknown", "m1"}

\* "score": 10 ** 400, an int that no float can hold
HugeInt == [score |-> <<[type |-> "int", val |-> 0, beyond_float |-> TRUE]>>]

ScoreFloats ==
    {0 - One, 0 - 1, 0, 1, 2, 3333, Half, 7200, 8500, 8800, 9500, 9900, One, One + 1, 2 * One}

\* the outputs the default scorer is applied to: no score, ints, floats, bools, a str
\* ("0.9"), None, and an int beyond the floats
ScoreOutputs ==
    {NoScore, HugeInt, Score("str", <<"0", ".", "9">>), Score("NoneType", None),
     Score("bool", TRUE), Score("bool", FALSE)}
        \cup {Score("int", k * One) : k \in (0 - 2) .. 3}
        \cup {Score("float", v) : v \in ScoreFloats}

\* the batches evaluate aggregates: scores 0.95, 0.88, 0.72, 0.99, 0.85; a mean half
\* way between two roundings; scores outside [0, 1]; outputs with no numeric score;
\* an int, a bool and a float; a single output; an int beyond the floats
ScoreBatches ==
    { <<>>,
      <<Score("float", 9500), Score("float", 8800), Score("float", 7200),
        Score("float", 9900), Score("float", 8500)>>,
      <<Score("float", 1), Score("float", 2)>>,
      <<Score("float", 2 * One), Score("float", 0 - One)>>,
      <<NoScore, Score("str", <<"0", ".", "9">>)>>,
      <<Score("int", One), Score("bool", FALSE), Score("float", 3333)>>,
      <<Score("float", 7200)>>,
      <<Score("float", Half), HugeInt>> }

\* the scoring_fn argument of the constructor: None, or a callable that returns
\* 2.0 whatever the output
ScoringFns == {<<>>, <<[kind |-> "custom", value |-> 2 * One]>>}

\* None, a callable that returns 1.0 and one that returns 2.0 whatever the output
ScoreScoringFns ==
    {<<>>, <<[kind |-> "custom", value |-> One]>>, <<[kind |-> "custom", value |-> 2 * One]>>}

-----------------------------------------------------------------------------
(* The state machine *)

\* the threads of the server's pool: FastAPI runs a handler declared with "def" in a
\* worker thread, several requests at a time
Threads == 1 .. MaxThreads

\* a thread that handles no request
Idle == [pc |-> "idle", dataset |-> None, existing |-> None]

\* the order of the first register calls, after a register call for dataset_id
first_register(order, dataset_id) ==
    IF \E i \in DOMAIN order : order[i] = dataset_id THEN order
    ELSE Append(order, dataset_id)

\* after registry = DatasetRegistry() and EvaluationRunner(registry, scoring_fn),
\* with scoring_fn one of S
Constructed(S) ==
    /\ _datasets = <<>>
    /\ _listings = <<>>
    /\ \E scoring_fn \in S : _scoring_fn = init_scoring_fn(scoring_fn)
    /\ _results = <<>>
    /\ ret = Call("init", <<>>, "", None)
    /\ registered = [id \in AllIds |-> <<>>]
    /\ evaluated = [id \in AllIds |-> <<>>]
    /\ incremented = [id \in AllIds |-> 0]
    /\ requests = [t \in Threads |-> Idle]
    /\ first_registered = <<>>
    /\ held = None

Init == Constructed(ScoringFns)

Register(D) ==
    \E dataset \in D :
        /\ register(dataset)
        /\ ret' = Call("register", <<dataset>>, "", None)
        /\ registered' = [registered EXCEPT ![dataset.dataset_id] = <<dataset>>]
        /\ first_registered' = first_register(first_registered, dataset.dataset_id)
        /\ UNCHANGED <<_scoring_fn, _results, evaluated, incremented, requests, held>>

\* a mutant of Get: looking a dataset up counts as a download
GetCountsDownload(I) ==
    \E dataset_id \in I :
        /\ ret' = Call("get", <<dataset_id>>, get(dataset_id).raised, get(dataset_id).value)
        /\ increment_downloads(dataset_id)
        /\ UNCHANGED <<_datasets, _scoring_fn, _results, registered, evaluated,
                       incremented, requests, first_registered, held>>

Get(I) ==
    \E dataset_id \in I :
        /\ ret' = Call("get", <<dataset_id>>, get(dataset_id).raised, get(dataset_id).value)
        /\ UNCHANGED <<_datasets, _listings, _scoring_fn, _results, registered, evaluated,
                       incremented, requests, first_registered, held>>

Search(Q, C, M) ==
    \E query \in Q, category \in C, min_quality \in M :
        /\ ret' = Call("search", <<query, category, min_quality>>, "",
                       search(query, category, min_quality))
        /\ UNCHANGED <<_datasets, _listings, _scoring_fn, _results, registered, evaluated,
                       incremented, requests, first_registered, held>>

\* the number of downloads of all the listings
RECURSIVE downloaded(_)
downloaded(listings) ==
    IF listings = <<>> THEN 0 ELSE listings[1].value.downloads + downloaded(Tail(listings))

IncrementDownloads(I) ==
    \E dataset_id \in I :
        /\ downloaded(_listings) < MaxDownloads
        /\ increment_downloads(dataset_id)
        /\ ret' = Call("increment_downloads", <<dataset_id>>, "", None)
        /\ incremented' = IF registered[dataset_id] # <<>>
                          THEN [incremented EXCEPT ![dataset_id] = @ + 1]
                          ELSE incremented
        /\ UNCHANGED <<_datasets, _scoring_fn, _results, registered, evaluated, requests, first_registered, held>>

\* the number of results in all the histories
RECURSIVE stored(_)
stored(results) ==
    IF results = <<>> THEN 0 ELSE Len(results[1].value) + stored(Tail(results))

Evaluate(I, B, N) ==
    \E dataset_id \in I, model_outputs \in B, model_name \in N :
        LET out == evaluate(dataset_id, model_outputs, model_name)
        IN  /\ stored(_results) < MaxEvals
            /\ _results' = out.results
            /\ ret' = Call("evaluate", <<dataset_id, model_outputs, model_name>>,
                           out.raised, out.value)
            /\ evaluated' = IF out.raised = ""
                            THEN [evaluated EXCEPT ![dataset_id] = Append(@, model_name)]
                            ELSE evaluated
            /\ UNCHANGED <<_datasets, _listings, _scoring_fn, registered, incremented,
                           requests, first_registered, held>>

GetResults(I) ==
    \E dataset_id \in I :
        /\ ret' = Call("get_results", <<dataset_id>>, "", get_results(dataset_id))
        /\ UNCHANGED <<_datasets, _listings, _scoring_fn, _results, registered, evaluated,
                       incremented, requests, first_registered, held>>

\* the registry and the runner, called in any order
Next ==
    \/ Register(Datasets)
    \/ Get(Ids)
    \/ Search(Queries, Categories, MinQualities)
    \/ IncrementDownloads(Ids)
    \/ Evaluate(Ids, Batches, ModelNames)
    \/ GetResults(Ids)

Spec == Init /\ [][Next]_vars

\* the registry alone, searched over datasets and queries that differ in their text
NextSearch ==
    \/ Register(SearchDatasets)
    \/ Search(SearchQueries, SearchCategories, SearchMinQualities)

SpecSearch == Init /\ [][NextSearch]_vars

InitScore == Constructed(ScoreScoringFns)

\* _default_scorer called on its own
DefaultScorer(O) ==
    \E output \in O :
        /\ ret' = Call("_default_scorer", <<output>>, _default_scorer_raises(output),
                       IF _default_scorer_raises(output) = ""
                       THEN _default_scorer(output) ELSE None)
        /\ UNCHANGED <<_datasets, _listings, _scoring_fn, _results, registered, evaluated,
                       incremented, requests, first_registered, held>>

\* the scorer and the runner's arithmetic, over outputs and batches that differ in
\* their scores
NextScore ==
    \/ Register({D1a})
    \/ DefaultScorer(ScoreOutputs)
    \/ Evaluate({"d1"}, ScoreBatches, {"unknown"})

SpecScore == InitScore /\ [][NextScore]_vars

\* _registry = DatasetRegistry(); _runner = EvaluationRunner(registry=_registry)
InitApi == Constructed({None})

ListDatasets(Q, C, M) ==
    \E query \in Q, category \in C, min_quality \in M :
        /\ ret' = Call("list_datasets", <<query, category, min_quality>>, "",
                       list_datasets(query, category, min_quality))
        /\ UNCHANGED <<_datasets, _listings, _scoring_fn, _results, registered, evaluated,
                       incremented, requests, first_registered, held>>

GetDataset(I) ==
    \E dataset_id \in I :
        /\ ret' = Call("get_dataset", <<dataset_id>>, get_dataset(dataset_id).raised,
                       get_dataset(dataset_id).value)
        /\ UNCHANGED <<_datasets, _listings, _scoring_fn, _results, registered, evaluated,
                       incremented, requests, first_registered, held>>

\* POST /api/datasets, handled with no other request in progress
RegisterDataset(D) ==
    \E dataset \in D :
        /\ register(dataset)
        /\ ret' = Call("register_dataset", <<dataset>>, "", dataset)
        /\ registered' = [registered EXCEPT ![dataset.dataset_id] = <<dataset>>]
        /\ first_registered' = first_register(first_registered, dataset.dataset_id)
        /\ UNCHANGED <<_scoring_fn, _results, evaluated, incremented, requests, held>>

GetEvaluations(I) ==
    \E dataset_id \in I :
        /\ ret' = Call("get_evaluations", <<dataset_id>>, get_evaluations(dataset_id).raised,
                       get_evaluations(dataset_id).value)
        /\ UNCHANGED <<_datasets, _listings, _scoring_fn, _results, registered, evaluated,
                       incremented, requests, first_registered, held>>

\* the routes of the application, one request at a time; no route evaluates, and
\* _runner.evaluate is called as the code that holds the module's runner may call
\* it, so that the histories served are not all empty
NextApi ==
    \/ ListDatasets(Queries, Categories, MinQualities)
    \/ GetDataset(Ids)
    \/ RegisterDataset(Datasets)
    \/ GetEvaluations(Ids)
    \/ Evaluate(Ids, Batches, ModelNames)

SpecApi == InitApi /\ [][NextApi]_vars

\* results = runner.get_results(dataset_id), the caller keeping the list; called is
\* the number of results the history had at the call
KeepResults(I) ==
    \E dataset_id \in I :
        /\ ret' = Call("get_results", <<dataset_id>>, "", get_results(dataset_id))
        /\ held' = <<[dataset_id |-> dataset_id, called |-> Len(get_results(dataset_id)),
                      list |-> get_results_list(dataset_id)]>>
        /\ UNCHANGED <<_datasets, _listings, _scoring_fn, _results, registered, evaluated,
                       incremented, requests, first_registered>>

\* a caller that keeps the list of a get_results call while evaluations go on
NextKept ==
    \/ Register({D1a, D2a})
    \/ Evaluate(Ids, Batches, {"unknown"})
    \/ KeepResults(Ids)

SpecKept == InitApi /\ [][NextKept]_vars

\* POST /api/datasets reaches an idle thread of the pool: register_dataset(dataset)
\* is called and is about to call _registry.register(dataset)
PostDataset(D) ==
    \E t \in Threads, dataset \in D :
        /\ requests[t].pc = "idle"
        /\ requests' = [requests EXCEPT ![t] = [pc |-> "35", dataset |-> dataset,
                                                existing |-> None]]
        /\ UNCHANGED <<_datasets, _listings, _scoring_fn, _results, ret, registered,
                       evaluated, incremented, first_registered, held>>

\* core.py line 35: self._datasets[dataset.dataset_id] = dataset
RegisterLine35 ==
    \E t \in Threads :
        /\ requests[t].pc = "35"
        /\ _datasets' = dict_setitem(_datasets, requests[t].dataset.dataset_id,
                                     requests[t].dataset)
        /\ requests' = [requests EXCEPT ![t].pc = "36"]
        /\ UNCHANGED <<_listings, _scoring_fn, _results, ret, registered, evaluated,
                       incremented, first_registered, held>>

\* line 36: if dataset.dataset_id not in self._listings
RegisterLine36 ==
    \E t \in Threads :
        /\ requests[t].pc = "36"
        /\ requests' = [requests EXCEPT ![t].pc =
                            IF ~dict_contains(_listings, requests[t].dataset.dataset_id)
                            THEN "37" ELSE "39"]
        /\ UNCHANGED <<_datasets, _listings, _scoring_fn, _results, ret, registered,
                       evaluated, incremented, first_registered, held>>

\* line 37: self._listings[dataset.dataset_id] = MarketplaceListing(dataset=dataset);
\* register returns and the handler returns the dataset
RegisterLine37 ==
    \E t \in Threads :
        /\ requests[t].pc = "37"
        /\ _listings' = dict_setitem(_listings, requests[t].dataset.dataset_id,
                                     MarketplaceListing(requests[t].dataset, 0, 0, 0))
        /\ requests' = [requests EXCEPT ![t].pc = "done"]
        /\ ret' = Call("register_dataset", <<requests[t].dataset>>, "", requests[t].dataset)
        /\ registered' = [registered EXCEPT ![requests[t].dataset.dataset_id] =
                                                <<requests[t].dataset>>]
        /\ first_registered' = first_register(first_registered, requests[t].dataset.dataset_id)
        /\ UNCHANGED <<_datasets, _scoring_fn, _results, evaluated, incremented, held>>

\* line 39: existing = self._listings[dataset.dataset_id]
RegisterLine39 ==
    \E t \in Threads :
        /\ requests[t].pc = "39"
        /\ requests' = [requests EXCEPT ![t].pc = "40",
                                        ![t].existing =
                            <<dict_getitem(_listings, requests[t].dataset.dataset_id)>>]
        /\ UNCHANGED <<_datasets, _listings, _scoring_fn, _results, ret, registered,
                       evaluated, incremented, first_registered, held>>

\* lines 40 to 45: self._listings[dataset.dataset_id] = MarketplaceListing(dataset=
\* dataset, downloads=existing.downloads, ...); register returns and the handler
\* returns the dataset
RegisterLine40 ==
    \E t \in Threads :
        /\ requests[t].pc = "40"
        /\ _listings' = dict_setitem(_listings, requests[t].dataset.dataset_id,
                                     MarketplaceListing(requests[t].dataset,
                                                        requests[t].existing[1].downloads,
                                                        requests[t].existing[1].rating,
                                                        requests[t].existing[1].reviews))
        /\ requests' = [requests EXCEPT ![t].pc = "done", ![t].existing = None]
        /\ ret' = Call("register_dataset", <<requests[t].dataset>>, "", requests[t].dataset)
        /\ registered' = [registered EXCEPT ![requests[t].dataset.dataset_id] =
                                                <<requests[t].dataset>>]
        /\ first_registered' = first_register(first_registered, requests[t].dataset.dataset_id)
        /\ UNCHANGED <<_datasets, _scoring_fn, _results, evaluated, incremented, held>>

\* POST /api/datasets requests handled at the same time, one by each thread of the
\* pool: nothing in api.py or core.py takes a lock, and a thread may be preempted
\* between any two statements of register
NextServer ==
    \/ PostDataset(Datasets)
    \/ RegisterLine35
    \/ RegisterLine36
    \/ RegisterLine37
    \/ RegisterLine39
    \/ RegisterLine40

SpecServer == InitApi /\ [][NextServer]_vars

-----------------------------------------------------------------------------
(* Claims C1 to C7: the registry and the runner, under Spec *)

\* the listing stored under dataset_id
listing_of(listings, dataset_id) == dict_getitem(listings, dataset_id)

\* C1: register(d) on an identifier with no listing creates a listing with
\* downloads = 0, rating = 0, reviews = 0; on an identifier that has a listing it
\* replaces the listing's dataset by d and leaves the listing's downloads, rating
\* and reviews as they were before the call.
C1_RegisterCreatesOrPreserves ==
    [][ret'.op = "register" =>
          LET d  == ret'.args[1]
              id == d.dataset_id
          IN  /\ dict_contains(_listings', id)
              /\ listing_of(_listings', id).dataset = d
              /\ IF dict_contains(_listings, id)
                 THEN /\ listing_of(_listings', id).downloads = listing_of(_listings, id).downloads
                      /\ listing_of(_listings', id).rating = listing_of(_listings, id).rating
                      /\ listing_of(_listings', id).reviews = listing_of(_listings, id).reviews
                 ELSE /\ listing_of(_listings', id).downloads = 0
                      /\ listing_of(_listings', id).rating = 0
                      /\ listing_of(_listings', id).reviews = 0
    ]_vars

\* C1's case: d1 was registered again, with its second payload, after two downloads
C1_Witness ==
    /\ ret.op = "register"
    /\ ret.args[1] = D1b
    /\ dict_contains(_listings, "d1")
    /\ listing_of(_listings, "d1").downloads = 2
    /\ listing_of(_listings, "d1").dataset = D1b

\* C2: get(id) returns the payload of the most recent register call for id, and
\* raises DatasetNotFoundError exactly when register was never called for id.
C2_GetReturnsLastRegistered ==
    ret.op = "get" =>
        LET id == ret.args[1]
        IN  IF registered[id] = <<>>
            THEN ret.raised = "DatasetNotFoundError"
            ELSE ret.raised = "" /\ ret.value = registered[id][1]

\* C2's case: get returns d1's second payload after a download and an evaluation
C2_Witness ==
    /\ ret.op = "get"
    /\ ret.raised = ""
    /\ ret.value = D1b
    /\ dict_contains(_listings, "d1")
    /\ listing_of(_listings, "d1").downloads >= 1
    /\ get_results("d1") # <<>>

\* C3: evaluate on an identifier that is not registered raises
\* DatasetNotFoundError and changes nothing: no history gains an entry and the
\* registry is as it was.
C3_EvaluateUnregisteredNoEffect ==
    [][ret'.op = "evaluate" /\ ~dict_contains(_datasets, ret'.args[1]) =>
          /\ ret'.raised = "DatasetNotFoundError"
          /\ _results' = _results
          /\ \A id \in AllIds : get_results(id)' = get_results(id)
          /\ _datasets' = _datasets
          /\ _listings' = _listings
    ]_vars

\* C3's case: d2 is not registered, d1 has a history, and evaluate("d2") raised
C3_Witness ==
    /\ ret.op = "evaluate"
    /\ ret.args[1] = "d2"
    /\ ret.raised = "DatasetNotFoundError"
    /\ ~dict_contains(_datasets, "d2")
    /\ get_results("d1") # <<>>
    /\ get_results("d2") = <<>>

\* C4: for a registered identifier evaluate never fails: whatever the batch and
\* whatever the scoring function returns, it returns a result and that result is
\* the last entry of the identifier's history.
C4_EvaluateOnlyFailsNotFound ==
    ret.op = "evaluate" /\ dict_contains(_datasets, ret.args[1]) =>
        /\ ret.raised = ""
        /\ get_results(ret.args[1]) # <<>>
        /\ get_results(ret.args[1])[Len(get_results(ret.args[1]))] = ret.value

\* the model names of a history, in order
model_names(history) == [i \in DOMAIN history |-> history[i].model_name]

\* C5: get_results(id) returns one entry per evaluate(id, ...) call that returned,
\* in call order, each with the model name of its call; equal results are all
\* kept; an identifier never evaluated yields the empty list, without error.
C5_ResultsInCallOrder ==
    ret.op = "get_results" =>
        /\ ret.raised = ""
        /\ Len(ret.value) = Len(evaluated[ret.args[1]])
        /\ model_names(ret.value) = evaluated[ret.args[1]]
        /\ \A i \in DOMAIN ret.value : ret.value[i].dataset_id = ret.args[1]

\* C5's case: the same evaluation was run twice and get_results returns both
C5_Witness ==
    /\ ret.op = "get_results"
    /\ Len(ret.value) = 2
    /\ ret.value[1] = ret.value[2]

\* C6: increment_downloads(id) on an identifier that has a listing adds exactly 1
\* to that listing's downloads and leaves its dataset, rating and reviews, every
\* other listing and every dataset record unchanged.
C6_IncrementAddsOne ==
    [][ret'.op = "increment_downloads" /\ dict_contains(_listings, ret'.args[1]) =>
          LET id == ret'.args[1]
          IN  /\ Len(_listings') = Len(_listings)
              /\ \A i \in DOMAIN _listings :
                    /\ _listings'[i].key = _listings[i].key
                    /\ IF _listings[i].key = id
                       THEN /\ _listings'[i].value.downloads = _listings[i].value.downloads + 1
                            /\ _listings'[i].value.dataset = _listings[i].value.dataset
                            /\ _listings'[i].value.rating = _listings[i].value.rating
                            /\ _listings'[i].value.reviews = _listings[i].value.reviews
                       ELSE _listings'[i] = _listings[i]
              /\ _datasets' = _datasets
    ]_vars

\* C6's case: the second download of d1, beside the listing of d2
C6_Witness ==
    /\ ret.op = "increment_downloads"
    /\ ret.args[1] = "d1"
    /\ dict_contains(_listings, "d2")
    /\ dict_contains(_listings, "d1")
    /\ listing_of(_listings, "d1").downloads = 2

\* C7: increment_downloads(id) on an identifier with no listing raises nothing
\* and changes nothing: the dataset records and the listings are as before, and
\* id has no listing after the call.
C7_IncrementUnknownNoOp ==
    [][ret'.op = "increment_downloads" /\ ~dict_contains(_listings, ret'.args[1]) =>
          /\ ret'.raised = ""
          /\ _listings' = _listings
          /\ _datasets' = _datasets
          /\ ~dict_contains(_listings', ret'.args[1])
    ]_vars

\* C7's case: d2 has no listing, d1 has one with a download, and
\* increment_downloads("d2") was called
C7_Witness ==
    /\ ret.op = "increment_downloads"
    /\ ret.args[1] = "d2"
    /\ ~dict_contains(_listings, "d2")
    /\ dict_contains(_listings, "d1")
    /\ listing_of(_listings, "d1").downloads = 1

-----------------------------------------------------------------------------
(* Claims C8 to C10: search, under SpecSearch *)

all_whitespace(s) == \A i \in DOMAIN s : s[i] \in Whitespace

\* the number of times listing occurs in the sequence
occurrences(listing, listings) == Cardinality({j \in DOMAIN listings : listings[j] = listing})

\* sub occurs in s, character for character
contains(s, sub) ==
    \E i \in 0..(Len(s) - Len(sub)) : SubSeq(s, i + 1, i + Len(sub)) = sub

equal_ignoring_case(a, b) ==
    Len(a) = Len(b) /\ \A i \in DOMAIN a : lower_char(a[i]) = lower_char(b[i])

\* name, description and the tags one after the other
concatenated(dataset) == join(<<>>, <<dataset.name, dataset.description>> \o dataset.tags)

\* name, description and the tags with one space between each two
space_joined(dataset) == join(<<" ">>, <<dataset.name, dataset.description>> \o dataset.tags)

elements(seq) == {seq[i] : i \in DOMAIN seq}

\* C8: search with an empty or all-whitespace query, no category and
\* min_quality = q returns each listing of quality_score >= q exactly once
\* (quality_score = q included), no listing of quality_score < q, and the
\* result is in non-increasing order of quality_score.
C8_SearchByQuality ==
    ret.op = "search" /\ all_whitespace(ret.args[1]) /\ ret.args[2] = None =>
        LET q   == ret.args[3]
            out == ret.value
        IN  /\ \A i \in DOMAIN _listings :
                  occurrences(_listings[i].value, out) =
                      IF _listings[i].value.dataset.quality_score >= q THEN 1 ELSE 0
            /\ \A j \in DOMAIN out : \E i \in DOMAIN _listings : out[j] = _listings[i].value
            /\ \A j \in 1..(Len(out) - 1) :
                  out[j].dataset.quality_score >= out[j + 1].dataset.quality_score

\* C8's case: an all-whitespace query with min_quality 0.5 over three listings,
\* registered with quality 0.0, 0.5 and 1.0 in this order: the first is left
\* out, the one of quality 0.5 is kept, and the other two come back swapped
C8_Witness ==
    /\ ret.op = "search"
    /\ ret.args = << <<" ", "\t">>, None, Half >>
    /\ Len(_listings) = 3
    /\ _listings[1].value.dataset.quality_score = 0
    /\ _listings[2].value.dataset.quality_score = Half
    /\ _listings[3].value.dataset.quality_score = One
    /\ ret.value = <<_listings[3].value, _listings[2].value>>

\* C9: search with a category returns a listing only if its dataset's category
\* equals the given one ignoring case (the whole string, not a prefix), and
\* returns every such listing that passes the other filters; without a category
\* no listing is left out for its category.
C9_SearchByCategory ==
    ret.op = "search" =>
        LET query        == ret.args[1]
            category     == ret.args[2]
            min_quality  == ret.args[3]
            others       == search(query, None, min_quality)
            query_lower  == strip(lower(query))
        IN  IF category # None
            THEN ret.value =
                   SelectSeq(others, LAMBDA listing :
                       equal_ignoring_case(listing.dataset.category, category[1]))
            ELSE elements(ret.value) =
                   {listing \in elements(dict_values(_listings)) :
                       /\ listing.dataset.quality_score >= min_quality
                       /\ query_lower = <<>>
                            \/ contains(lower(space_joined(listing.dataset)), query_lower)}

\* C9's case: category "X" returns d1, whose category is "x", and not d2, whose
\* category is "xy" and which passes the other filters
C9_Witness ==
    /\ ret.op = "search"
    /\ ret.args = << <<>>, <<<<"X">>>>, 0 >>
    /\ dict_contains(_listings, "d2")
    /\ listing_of(_listings, "d2").dataset = D2a
    /\ Len(ret.value) = 1
    /\ ret.value[1].dataset = D1a

\* C10 as it is written: for a query that is not empty after trimming, a listing
\* passes the text filter iff the lowercased, trimmed query is a literal
\* substring of the lowercased concatenation of name, description and tags.
C10_TextFilterConcatenation ==
    ret.op = "search" /\ strip(lower(ret.args[1])) # <<>> =>
        elements(ret.value) =
            {listing \in elements(search(<<>>, ret.args[2], ret.args[3])) :
                contains(lower(concatenated(listing.dataset)), strip(lower(ret.args[1])))}

\* C10, amended: for a query that is not empty after trimming, a listing passes
\* the text filter iff the lowercased, trimmed query is a literal substring of
\* the lowercased text made of name, description and tags joined by single
\* spaces; every character of the query is matched literally.
C10_TextFilterSpaceJoined ==
    ret.op = "search" /\ strip(lower(ret.args[1])) # <<>> =>
        elements(ret.value) =
            {listing \in elements(search(<<>>, ret.args[2], ret.args[3])) :
                contains(lower(space_joined(listing.dataset)), strip(lower(ret.args[1])))}

\* C10's case: the query ".*" returns d3, whose description is ".*", and not
\* d1 and d2, which are registered and hold neither "." nor "*" next to each other
C10_Witness ==
    /\ ret.op = "search"
    /\ ret.args = << <<".", "*">>, None, 0 >>
    /\ Len(_listings) = 3
    /\ Len(ret.value) = 1
    /\ ret.value[1].dataset = D3b

-----------------------------------------------------------------------------
(* Claims C11 to C14: scoring and aggregation *)

\* the last result of a history
last(history) == history[Len(history)]

\* C11: evaluate on a registered dataset with an empty batch of outputs does not
\* raise; it returns a result with score 0.0, mean_score = min_score = max_score =
\* 0.0 and sample_count = 0.0, and that result is appended to the dataset's history.
C11_EmptyBatchScoresZero ==
    (ret.op = "evaluate" /\ registered[ret.args[1]] # <<>> /\ ret.args[2] = <<>>) =>
        /\ ret.raised = ""
        /\ ret.value.score = 0
        /\ ret.value.metrics.mean_score.num = 0
        /\ ret.value.metrics.min_score = 0
        /\ ret.value.metrics.max_score = 0
        /\ ret.value.metrics.sample_count = 0
        /\ get_results(ret.args[1]) # <<>>
        /\ last(get_results(ret.args[1])) = ret.value

\* an empty batch was evaluated on a dataset whose history already held a result,
\* by a runner with a custom scoring function
C11_Witness ==
    /\ ret.op = "evaluate"
    /\ registered[ret.args[1]] # <<>>
    /\ ret.args[2] = <<>>
    /\ _scoring_fn.kind = "custom"
    /\ Len(get_results(ret.args[1])) = 2

\* the value of a numeric "score" as a real: a bool counts as 0 or 1
number(raw) == IF raw.type = "bool" THEN (IF raw.val THEN One ELSE 0) ELSE raw.val

\* C12: the default scorer returns, for every output: the value of "score" clamped
\* into [0.0, 1.0] when it is an int, a float or a bool counted as 0/1 (above 1
\* gives 1.0, below 0 gives 0.0, inside is returned unchanged), and exactly 0.5 when
\* the key is absent or its value is not numeric.
C12_DefaultScorerClamps ==
    ret.op = "_default_scorer" =>
        LET score == ret.args[1].score
        IN  /\ ret.raised = ""
            /\ IF score # <<>> /\ score[1].type \in {"int", "float", "bool"}
               THEN IF "beyond_float" \in DOMAIN score[1] \/ number(score[1]) > One
                    THEN ret.value = One
                    ELSE IF number(score[1]) < 0
                    THEN ret.value = 0
                    ELSE ret.value = number(score[1])
               ELSE ret.value = Half

\* the same of the outputs whose "score" a float can hold
C12_DefaultScorerClampsFloatable ==
    (ret.op = "_default_scorer" /\ ret.args[1] # HugeInt) => C12_DefaultScorerClamps

\* scores[1] + ... + scores[n]
RECURSIVE total(_, _)
total(scores, n) == IF n = 0 THEN 0 ELSE total(scores, n - 1) + scores[n]

\* the distance between two numbers
distance(a, b) == IF a >= b THEN a - b ELSE b - a

\* result carries the aggregates of the scores that the configured scoring function
\* gives to the outputs: their mean, minimum, maximum and number, and as its score
\* the number with four decimals that is nearest to the mean
aggregates(result, outputs) ==
    LET scores  == [i \in DOMAIN outputs |-> apply_scoring_fn(_scoring_fn, outputs[i])]
        metrics == result.metrics
        mean    == metrics.mean_score
    IN  /\ mean.num * Len(scores) = total(scores, Len(scores)) * mean.den
        /\ \E i \in DOMAIN scores : metrics.min_score = scores[i]
        /\ \A i \in DOMAIN scores : metrics.min_score <= scores[i]
        /\ \E i \in DOMAIN scores : metrics.max_score = scores[i]
        /\ \A i \in DOMAIN scores : metrics.max_score >= scores[i]
        /\ metrics.min_score * mean.den <= mean.num
        /\ mean.num <= metrics.max_score * mean.den
        /\ metrics.sample_count = Len(outputs) * One
        /\ 2 * distance(result.score * mean.den, mean.num) <= mean.den

\* C13: for a registered dataset and a non-empty batch, evaluate applies the
\* configured scoring function to every output and returns a result whose
\* mean_score is the mean of the scores, min_score and max_score their minimum and
\* maximum (min_score <= mean_score <= max_score), sample_count the number of
\* outputs, and score the mean rounded to 4 decimal places.
C13_EvaluateAggregates ==
    (ret.op = "evaluate" /\ registered[ret.args[1]] # <<>> /\ ret.args[2] # <<>>) =>
        /\ ret.raised = ""
        /\ aggregates(ret.value, ret.args[2])

\* the same of the calls that return
C13_ReturnedAggregates ==
    (/\ ret.op = "evaluate"
     /\ registered[ret.args[1]] # <<>>
     /\ ret.args[2] # <<>>
     /\ ret.raised = "") => aggregates(ret.value, ret.args[2])

\* scores 0.95, 0.88, 0.72, 0.99, 0.85 gave score 0.8780, min 0.72, max 0.99 and
\* sample_count 5
C13_Example ==
    /\ ret.op = "evaluate"
    /\ ret.raised = ""
    /\ Len(ret.args[2]) = 5
    /\ ret.value.score = 8780
    /\ ret.value.metrics.min_score = 7200
    /\ ret.value.metrics.max_score = 9900
    /\ ret.value.metrics.sample_count = 5 * One

in_unit_interval(score) == 0 <= score /\ score <= One

\* C14: every result held in a history, and every result evaluate returns, has a
\* score within [0, 1], whatever the scoring function of the runner.
C14_ScoresInUnitInterval ==
    /\ \A i \in DOMAIN _results : \A j \in DOMAIN _results[i].value :
           in_unit_interval(_results[i].value[j].score)
    /\ (ret.op = "evaluate" /\ ret.raised = "") => in_unit_interval(ret.value.score)

\* a runner with a custom scoring function returned and stored the result of a
\* batch that is not empty
C14_Witness ==
    /\ _scoring_fn.kind = "custom"
    /\ ret.op = "evaluate"
    /\ ret.raised = ""
    /\ ret.args[2] # <<>>
    /\ get_results(ret.args[1]) # <<>>
    /\ last(get_results(ret.args[1])) = ret.value

-----------------------------------------------------------------------------
(* Claims C15 and C16: the HTTP layer *)

\* C15: GET /api/datasets/{id} and GET /api/evaluations/{id} answer 404 exactly
\* when id is not registered at the time of the request; otherwise the first
\* answers with the dataset record of id and the second with the history of id.
C15_NotFoundIs404 ==
    /\ ret.op = "get_dataset" =>
           IF registered[ret.args[1]] = <<>>
           THEN ret.raised = "HTTPException" /\ ret.value = 404
           ELSE ret.raised = "" /\ ret.value = registered[ret.args[1]][1]
    /\ ret.op = "get_evaluations" =>
           IF registered[ret.args[1]] = <<>>
           THEN ret.raised = "HTTPException" /\ ret.value = 404
           ELSE /\ ret.raised = ""
                /\ ret.value = get_results(ret.args[1])
                /\ model_names(ret.value) = evaluated[ret.args[1]]

\* the evaluations of an identifier that is not registered were asked for, while
\* another identifier was registered and had a history
C15_Witness ==
    /\ ret.op = "get_evaluations"
    /\ registered[ret.args[1]] = <<>>
    /\ \E id \in Ids : registered[id] # <<>> /\ get_results(id) # <<>>

\* the threads that have run a statement of register and not yet its last
inside_register == {t \in Threads : requests[t].pc \in {"36", "37", "39", "40"}}

\* every listing carries the dataset record stored under its identifier
listings_match_records ==
    \A i \in DOMAIN _datasets :
        /\ dict_contains(_listings, _datasets[i].key)
        /\ listing_of(_listings, _datasets[i].key).dataset = _datasets[i].value

\* C16: requests that register datasets at the same time are serialized: the
\* statements of one register call never interleave with those of another, so
\* that once the requests have completed the listing of an identifier carries the
\* dataset record stored under that identifier.
C16_RegisterSerialized ==
    /\ Cardinality(inside_register) <= 1
    /\ (\A t \in Threads : requests[t].pc = "done") => listings_match_records

\* the second part of C16 alone: what the requests leave behind
C16_CompletedListingsMatch ==
    (\A t \in Threads : requests[t].pc = "done") => listings_match_records

-----------------------------------------------------------------------------
(* Claims C17 to C20: what the calls keep and what they leave alone, under Spec *)

\* C17: the identifiers that have a dataset record are the identifiers that have a
\* listing, with one record and one listing each, and the listing of an identifier
\* carries the dataset record stored under that identifier.
C17_RecordsAndListingsAgree ==
    /\ dict_keys(_datasets) = dict_keys(_listings)
    /\ Cardinality(dict_keys(_datasets)) = Len(_datasets)
    /\ Cardinality(dict_keys(_listings)) = Len(_listings)
    /\ listings_match_records

\* two identifiers are registered, and the last call registered again, with another
\* payload, a dataset that had been downloaded
C17_Witness ==
    /\ Len(_datasets) = 2
    /\ ret.op = "register"
    /\ ret.args[1] = D1b
    /\ dict_contains(_listings, "d1")
    /\ listing_of(_listings, "d1").downloads >= 1

\* C18: the history of an identifier only grows at its end: a call of evaluate for
\* the identifier that returns adds its result as the last entry, and no other call
\* (register, increment_downloads, search, get, get_results, evaluate for another
\* identifier, evaluate that raises) changes it; so the history of an earlier state
\* is a prefix of the history of every later state.
C18_HistoryAppendOnly ==
    [][\A id \in Ids :
           IF ret'.op = "evaluate" /\ ret'.raised = "" /\ ret'.args[1] = id
           THEN get_results(id)' = Append(get_results(id), ret'.value)
           ELSE get_results(id)' = get_results(id)]_vars

\* a dataset with two results in its history was registered again
C18_Witness ==
    /\ ret.op = "register"
    /\ Len(get_results(ret.args[1].dataset_id)) = 2

\* C19: get, search, get_results and evaluate leave the registry as it is: no
\* dataset record and no listing is added, removed or replaced, and no listing's
\* downloads, rating or reviews change.
C19_ReadOnlyCalls ==
    [][ret'.op \in {"get", "search", "get_results", "evaluate"} =>
           /\ _datasets' = _datasets
           /\ _listings' = _listings]_vars

\* a dataset was evaluated twice and has no download
C19_Witness ==
    /\ ret.op = "evaluate"
    /\ ret.raised = ""
    /\ Len(get_results(ret.args[1])) = 2
    /\ dict_contains(_listings, ret.args[1])
    /\ listing_of(_listings, ret.args[1]).downloads = 0

\* C20: the downloads of a listing are the increment_downloads calls made for its
\* identifier since the identifier's first register call: the calls made before are
\* not counted, and registering again does not change the number.
C20_DownloadsCountIncrements ==
    \A id \in Ids :
        IF dict_contains(_listings, id)
        THEN listing_of(_listings, id).downloads = incremented[id]
        ELSE incremented[id] = 0

\* a dataset downloaded twice was registered again with another payload
C20_Witness ==
    /\ ret.op = "register"
    /\ ret.args[1] = D1b
    /\ incremented["d1"] = 2
    /\ dict_contains(_listings, "d1")
    /\ listing_of(_listings, "d1").downloads = 2

-----------------------------------------------------------------------------
(* Claims C21 to C23 *)

\* the place of dataset_id in the order of the first register calls
place(dataset_id) ==
    CHOOSE i \in DOMAIN first_registered : first_registered[i] = dataset_id

\* C21: listings of equal quality_score come out of search in the order in which
\* their identifiers were first registered; registering an identifier again or
\* incrementing its downloads does not move it among them.
C21_TiesInRegistrationOrder ==
    ret.op = "search" =>
        \A i, j \in DOMAIN ret.value :
            (/\ i < j
             /\ ret.value[i].dataset.quality_score = ret.value[j].dataset.quality_score)
                => place(ret.value[i].dataset.dataset_id)
                       < place(ret.value[j].dataset.dataset_id)

\* search returned two listings of equal quality, the one registered first, which
\* has been downloaded, before the other
C21_Witness ==
    /\ ret.op = "search"
    /\ Len(ret.value) = 2
    /\ ret.value[1].dataset.quality_score = ret.value[2].dataset.quality_score
    /\ ret.value[1].downloads >= 1
    /\ ret.value[1].dataset = D1a
    /\ incremented["d1"] >= 1
    /\ first_registered = <<"d1", "d2">>

C22_WitnessEmpty ==
    /\ held # None
    /\ held[1].called = 0
    /\ get_results(held[1].dataset_id) # <<>>

\* C23: every listing has rating = 0 and reviews = 0 in every state: no operation
\* of the registry changes the two fields from the values a listing is created with.
C23_RatingAndReviewsStayZero ==
    \A i \in DOMAIN _listings :
        _listings[i].value.rating = 0 /\ _listings[i].value.reviews = 0

\* two listings, one of them downloaded twice and then registered again with
\* another payload
C23_Witness ==
    /\ Len(_listings) = 2
    /\ ret.op = "register"
    /\ \E i \in DOMAIN _listings :
           /\ _listings[i].value.downloads = 2
           /\ _listings[i].value.dataset = ret.args[1]
           /\ ret.args[1] = D1b

====
